---- MODULE Spec2Model ----
(***************************************************************************)
(* Model of the poemtab extension: the poem service (services/asset.ts),   *)
(* the background message relay and the new-tab page.                      *)
(*                                                                         *)
(* Encoding of JavaScript values.  A JS string is a sequence of tokens; a  *)
(* token is a TLA+ string holding either one character (where the code     *)
(* inspects characters: categories, author names, numbers) or a literal    *)
(* chunk of source text (a host name, a fixed message; Chinese literals    *)
(* are given in English).  Template literals are concatenations (\o).      *)
(* `undefined` is the reserved value Undef.                                *)
(***************************************************************************)
EXTENDS Integers, Sequences, FiniteSets, TLC

\* ------------------------------------------------------------- bounds
\* length of the poem sequence the new tab cycles through (meta.length)
MetaLength == 3
\* largest index a GET_POEM / SET_CURRENT_INDEX request of the model carries
MaxIndex == 6

\* ------------------------------------------------------- JS primitives
Undef == <<"<undefined>">>

Truthy(v) == v # Undef /\ v # <<>>

\* a || d
OrElse(v, d) == IF Truthy(v) THEN v ELSE d

\* `${v}` for a string or undefined
ToStr(v) == IF v = Undef THEN <<"undefined">> ELSE v

Digit == <<"0", "1", "2", "3", "4", "5", "6", "7", "8", "9">>

DigitVal(c) == CHOOSE d \in 0..9 : Digit[d + 1] = c

IsDigit(c) == \E d \in 0..9 : Digit[d + 1] = c

RECURSIVE NatToStr(_)
NatToStr(n) == IF n < 10 THEN <<Digit[n + 1]>>
               ELSE NatToStr(n \div 10) \o <<Digit[(n % 10) + 1]>>

\* `${n}` for an integer
NumToStr(n) == IF n < 0 THEN <<"-">> \o NatToStr(-n) ELSE NatToStr(n)

\* a JS value that is a number, NaN or null
NaN == [null |-> FALSE, nan |-> TRUE, n |-> 0]

Num(n) == [null |-> FALSE, nan |-> FALSE, n |-> n]

Null == [null |-> TRUE, nan |-> FALSE, n |-> 0]

NumberToStr(x) == IF x.nan THEN <<"NaN">> ELSE NumToStr(x.n)

RECURSIVE DropWhile(_, _)
DropWhile(s, set) == IF s # <<>> /\ Head(s) \in set THEN DropWhile(Tail(s), set) ELSE s

RECURSIVE DigitsValue(_, _)
DigitsValue(s, acc) == IF s # <<>> /\ IsDigit(Head(s))
                       THEN DigitsValue(Tail(s), acc * 10 + DigitVal(Head(s)))
                       ELSE acc

\* parseInt(s): leading white space, an optional sign, then decimal digits;
\* NaN when no digit follows
parseInt(s) ==
  LET t == DropWhile(s, {" ", "\n"})
      neg == t # <<>> /\ Head(t) = "-"
      u == IF t # <<>> /\ Head(t) \in {"-", "+"} THEN Tail(t) ELSE t
  IN IF s = Undef \/ u = <<>> \/ ~IsDigit(Head(u)) THEN NaN
     ELSE Num(IF neg THEN -DigitsValue(u, 0) ELSE DigitsValue(u, 0))

\* s.startsWith(p)
startsWith(s, p) == Len(s) >= Len(p) /\ SubSeq(s, 1, Len(p)) = p

\* s.replace(p, '') : removes the first occurrence of p
RECURSIVE replaceFirst(_, _)
replaceFirst(s, p) ==
  IF Len(s) < Len(p) THEN s
  ELSE IF startsWith(s, p) THEN SubSeq(s, Len(p) + 1, Len(s))
  ELSE <<Head(s)>> \o replaceFirst(Tail(s), p)

\* the characters encodeURIComponent escapes, among those the model uses
EscapeTable == [c \in {" ", "/", ",", "?", "%", "\n"} |->
                 CASE c = " " -> <<"%", "2", "0">>
                   [] c = "/" -> <<"%", "2", "F">>
                   [] c = "," -> <<"%", "2", "C">>
                   [] c = "?" -> <<"%", "3", "F">>
                   [] c = "%" -> <<"%", "2", "5">>
                   [] c = "\n" -> <<"%", "0", "A">>]

RECURSIVE encodeURIComponent(_)
encodeURIComponent(s) ==
  IF s = <<>> THEN <<>>
  ELSE (IF Head(s) \in DOMAIN EscapeTable THEN EscapeTable[Head(s)] ELSE <<Head(s)>>)
       \o encodeURIComponent(Tail(s))

\* lines.join('\n')
RECURSIVE join(_)
join(items) ==
  IF items = <<>> THEN <<>>
  ELSE IF Len(items) = 1 THEN ToStr(items[1])
  ELSE ToStr(items[1]) \o <<"\n">> \o join(Tail(items))

\* --------------------------------------------------------- poem records
\* AssetData; a field the object does not carry reads as Undef
AssetData(title, content, author, dynasty, translation, source, link, language) ==
  [title |-> title, content |-> content, author |-> author, dynasty |-> dynasty,
   translation |-> translation, source |-> source, link |-> link, language |-> language]

\* no poem: null, or undefined
NullPoem == AssetData(Undef, Undef, Undef, Undef, Undef, Undef, Undef, Undef)

SAMPLE_POEMS == <<
  AssetData(<<"Jing Ye Si">>, <<"chuang qian ming yue guang">>, <<"Li Bai">>, <<"Tang">>,
            <<"translation 1">>, <<"Quan Tang Shi">>,
            <<"https://so.gushiwen.cn/shiwenv_45c396367f59.aspx">>, Undef),
  AssetData(<<"Deng Guan Que Lou">>, <<"bai ri yi shan jin">>, <<"Wang Zhihuan">>, <<"Tang">>,
            <<"translation 2">>, <<"Quan Tang Shi">>,
            <<"https://so.gushiwen.cn/shiwenv_c90ff9ea5a71.aspx">>, Undef),
  AssetData(<<"Chun Xiao">>, <<"chun mian bu jue xiao">>, <<"Meng Haoran">>, <<"Tang">>,
            <<"translation 3">>, <<"Quan Tang Shi">>,
            <<"https://so.gushiwen.cn/shiwenv_5744c8530a77.aspx">>, Undef),
  AssetData(<<"Xiang Si">>, <<"hong dou sheng nan guo">>, <<"Wang Wei">>, <<"Tang">>,
            <<"translation 4">>, <<"Quan Tang Shi">>,
            <<"https://so.gushiwen.cn/shiwenv_6d23f9ea661b.aspx">>, Undef),
  AssetData(<<"Wang Lushan Pubu">>, <<"ri zhao xiang lu sheng zi yan">>, <<"Li Bai">>, <<"Tang">>,
            <<"translation 5">>, <<"Quan Tang Shi">>,
            <<"https://so.gushiwen.cn/shiwenv_4c6721b21a9f.aspx">>, Undef) >>

\* ------------------------------------------------------ configuration
POEM_API_baseUrl == <<"https://v1.jinrishici.com">>

POEM_API_format == <<"json">>

POETRYDB_baseUrl == <<"https://poetrydb.org">>

POETRYDB_random == <<"/random/1">>

POETRYDB_author == <<"/author">>

POETRYDB_lineCount == <<"/linecount">>

\* ------------------------------------------------ results of a function
Ok(v) == [ok |-> TRUE, value |-> v, error |-> <<>>]

Err(message) == [ok |-> FALSE, value |-> Undef, error |-> message]

\* ---------------------------------------------------- upstream answers
\* What fetch() and response.json() can produce.  kind "reject": fetch()
\* rejects with `message`; kind "http": a response with `status`, whose
\* body is invalid JSON ("invalid"), an object, an array or null.
ResponseOk(resp) == resp.status >= 200 /\ resp.status <= 299

Rejected(message) ==
  [kind |-> "reject", message |-> message, status |-> 0, shape |-> "none",
   obj |-> [origin |-> Undef, content |-> Undef, author |-> Undef, dynasty |-> Undef],
   arr |-> <<>>]

Http(status, shape, obj, arr) ==
  [kind |-> "http", message |-> <<>>, status |-> status, shape |-> shape,
   obj |-> obj, arr |-> arr]

CnObj(origin, content, author, dynasty) ==
  [origin |-> origin, content |-> content, author |-> author, dynasty |-> dynasty]

Lines(items) == [isArray |-> TRUE, items |-> items, raw |-> Undef]

RawLines(raw) == [isArray |-> FALSE, items |-> <<>>, raw |-> raw]

EnObj(title, author, lines) == [title |-> title, author |-> author, lines |-> lines]

StatusText(status) ==
  CASE status = 200 -> <<"OK">>
    [] status = 404 -> <<"Not Found">>
    [] OTHER -> <<"Service Unavailable">>

\* await response.json(): the message of the error it rejects with, or <<>>
JsonError(resp) ==
  IF resp.shape = "invalid" THEN <<"Unexpected token < in JSON at position 0">> ELSE <<>>

\* data.<field> of a parsed body: a TypeError on null, undefined on anything
\* that is not an object carrying the field
NullError(resp) ==
  IF resp.shape = "null" THEN <<"Cannot read properties of null">> ELSE <<>>

ObjOf(resp) == IF resp.shape = "object" THEN resp.obj ELSE CnObj(Undef, Undef, Undef, Undef)

\* ------------------------------------------------------- asset.ts clients
\* getRandomPoem: the request it issues (with the 5 s abort timer armed)
getRandomPoemUrl == <<"https://v1.jinrishici.com", "/", "a", "l", "l", ".", "json">>

\* getRandomPoem: what it returns or throws once fetch settles
getRandomPoemResult(resp) ==
  LET wrap == <<"cannot fetch poem data: ">>
      data == ObjOf(resp)
  IN IF resp.kind = "reject" THEN Err(wrap \o resp.message)
     ELSE IF ~ResponseOk(resp)
       THEN Err(wrap \o <<"API request failed: ">> \o NumToStr(resp.status)
                     \o <<" ">> \o StatusText(resp.status))
     ELSE IF JsonError(resp) # <<>> THEN Err(wrap \o JsonError(resp))
     ELSE IF NullError(resp) # <<>> THEN Err(wrap \o NullError(resp))
     ELSE Ok(AssetData(OrElse(data.origin, <<"Wu Ti">>), data.content,
                       OrElse(data.author, <<"Yi Ming">>), <<>>, Undef,
                       <<"Jinrishici API">>, <<"https://www.jinrishici.com/">>,
                       <<"chinese">>))

\* fetchEnglishPoem: the request it issues
fetchEnglishPoemUrl == POETRYDB_baseUrl \o POETRYDB_random

\* content of a PoetryDB entry
LinesContent(lines) == IF lines.isArray THEN join(lines.items) ELSE lines.raw

\* fetchEnglishPoem: what it returns or throws once fetch settles
fetchEnglishPoemResult(resp) ==
  LET wrap == <<"cannot fetch English poem data: ">>
  IN IF resp.kind = "reject" THEN Err(wrap \o resp.message)
     ELSE IF ~ResponseOk(resp)
       THEN Err(wrap \o <<"PoetryDB API request failed: ">> \o NumToStr(resp.status))
     ELSE IF JsonError(resp) # <<>> THEN Err(wrap \o JsonError(resp))
     ELSE IF resp.shape # "array" \/ Len(resp.arr) = 0
       THEN Err(wrap \o <<"invalid PoetryDB response data">>)
     ELSE LET poem == resp.arr[1]
          IN Ok(AssetData(OrElse(poem.title, <<"Untitled">>), LinesContent(poem.lines),
                          OrElse(poem.author, <<"Unknown">>), Undef, Undef,
                          <<"PoetryDB">>,
                          <<"https://poetrydb.org/title/">>
                            \o encodeURIComponent(ToStr(poem.title)),
                          <<"english">>))

\* fetchPoemByAuthor's request without encodeURIComponent
fetchPoemByAuthorUrl_raw(author) ==
  POETRYDB_baseUrl \o POETRYDB_author \o <<"/">> \o ToStr(author)
    \o <<"/title,author,lines">>

\* fetchPoemByAuthor: the request it issues
fetchPoemByAuthorUrl(author) ==
  POETRYDB_baseUrl \o POETRYDB_author \o <<"/">> \o encodeURIComponent(ToStr(author))
    \o <<"/title,author,lines">>

\* fetchPoemByAuthor: what it returns or throws once fetch settles; randomIndex
\* is Math.floor(Math.random() * poems.length)
fetchPoemByAuthorResult(author, resp, randomIndex) ==
  LET wrap == <<"cannot fetch poem data of ">> \o ToStr(author) \o <<": ">>
  IN IF resp.kind = "reject" THEN Err(wrap \o resp.message)
     ELSE IF ~ResponseOk(resp)
       THEN Err(wrap \o <<"API request failed: ">> \o NumToStr(resp.status))
     ELSE IF JsonError(resp) # <<>> THEN Err(wrap \o JsonError(resp))
     ELSE IF resp.shape # "array" \/ Len(resp.arr) = 0
       THEN Err(wrap \o <<"no poem found of ">> \o ToStr(author))
     ELSE LET poem == resp.arr[randomIndex + 1]
          IN Ok(AssetData(poem.title, LinesContent(poem.lines), poem.author, Undef, Undef,
                          <<"PoetryDB">>,
                          <<"https://poetrydb.org/author/">>
                            \o encodeURIComponent(ToStr(author))
                            \o <<"/title,author,lines">>,
                          <<"english">>))

\* fetchPoemByLineCount: the request it issues
fetchPoemByLineCountUrl(lineCount) ==
  POETRYDB_baseUrl \o POETRYDB_lineCount \o <<"/">> \o NumberToStr(lineCount)
    \o <<"/title,author,lines">>

\* fetchPoemByLineCount: what it returns or throws once fetch settles
fetchPoemByLineCountResult(lineCount, resp, randomIndex) ==
  LET wrap == <<"cannot fetch poem data of line count ">> \o NumberToStr(lineCount) \o <<": ">>
  IN IF resp.kind = "reject" THEN Err(wrap \o resp.message)
     ELSE IF ~ResponseOk(resp)
       THEN Err(wrap \o <<"API request failed: ">> \o NumToStr(resp.status))
     ELSE IF JsonError(resp) # <<>> THEN Err(wrap \o JsonError(resp))
     ELSE IF resp.shape # "array" \/ Len(resp.arr) = 0
       THEN Err(wrap \o <<"no poem found with line count ">> \o NumberToStr(lineCount))
     ELSE LET poem == resp.arr[randomIndex + 1]
          IN Ok(AssetData(poem.title, LinesContent(poem.lines), poem.author, Undef, Undef,
                          <<"PoetryDB">>,
                          <<"https://poetrydb.org/linecount/">> \o NumberToStr(lineCount),
                          <<"english">>))

\* getRandomPoemWithLanguage, chinese branch: the request it issues
chineseRandomUrl == <<"https://v1.jinrishici.com", "/", "a", "l", "l", ".", "json">>

\* getRandomPoemWithLanguage, chinese branch: what it returns or throws
chineseRandomResult(resp) ==
  LET wrap == <<"cannot fetch Chinese poem data: ">>
      data == ObjOf(resp)
  IN IF resp.kind = "reject" THEN Err(wrap \o resp.message)
     ELSE IF ~ResponseOk(resp)
       THEN Err(wrap \o <<"API request failed: ">> \o NumToStr(resp.status))
     ELSE IF JsonError(resp) # <<>> THEN Err(wrap \o JsonError(resp))
     ELSE IF NullError(resp) # <<>> THEN Err(wrap \o NullError(resp))
     ELSE Ok(AssetData(OrElse(data.origin, <<"Wu Ti">>), data.content,
                       OrElse(data.author, <<"Yi Ming">>), <<>>, Undef,
                       <<"Jinrishici API">>, <<"https://www.jinrishici.com/">>,
                       <<"chinese">>))

\* getPoemByCategoryWithLanguage, chinese branch: the request it issues
chineseCategoryUrl(category) ==
  POEM_API_baseUrl \o <<"/">> \o ToStr(category) \o <<".">> \o POEM_API_format

\* the chinese branch without the response.ok check
chineseCategoryResult_noOkCheck(resp) ==
  LET wrap == <<"cannot fetch Chinese category poem data: ">>
      data == ObjOf(resp)
  IN IF resp.kind = "reject" THEN Err(wrap \o resp.message)
     ELSE IF JsonError(resp) # <<>> THEN Err(wrap \o JsonError(resp))
     ELSE IF NullError(resp) # <<>> THEN Err(wrap \o NullError(resp))
     ELSE Ok(AssetData(OrElse(data.origin, <<"Wu Ti">>), data.content,
                       OrElse(data.author, <<"Yi Ming">>), OrElse(data.dynasty, <<>>), Undef,
                       <<"Jinrishici API">>, <<"https://www.jinrishici.com/">>,
                       <<"chinese">>))

\* getPoemByCategoryWithLanguage, chinese branch: what it returns or throws
chineseCategoryResult(resp) ==
  LET wrap == <<"cannot fetch Chinese category poem data: ">>
      data == ObjOf(resp)
  IN IF resp.kind = "reject" THEN Err(wrap \o resp.message)
     ELSE IF ~ResponseOk(resp)
       THEN Err(wrap \o <<"API request failed: ">> \o NumToStr(resp.status))
     ELSE IF JsonError(resp) # <<>> THEN Err(wrap \o JsonError(resp))
     ELSE IF NullError(resp) # <<>> THEN Err(wrap \o NullError(resp))
     ELSE Ok(AssetData(OrElse(data.origin, <<"Wu Ti">>), data.content,
                       OrElse(data.author, <<"Yi Ming">>), OrElse(data.dynasty, <<>>), Undef,
                       <<"Jinrishici API">>, <<"https://www.jinrishici.com/">>,
                       <<"chinese">>))

\* ------------------------------------------------------- asset.ts facade
\* What a facade operation does up to its first network wait: it returns or
\* throws (kind "return"), or issues one fetch and waits (kind "fetch":
\* the client that goes on, the URL, the client's argument, and whether the
\* abort timer is armed).
Return(res) ==
  [kind |-> "return", res |-> res, client |-> "none", url |-> <<>>, arg |-> <<>>,
   num |-> NaN, timer |-> FALSE]

Fetch(client, url, arg, num, timer) ==
  [kind |-> "fetch", res |-> Err(<<>>), client |-> client, url |-> url, arg |-> arg,
   num |-> num, timer |-> timer]

\* getCurrentIndex: the value read from the metadata store is absent (Undef)
\* or a string
getCurrentIndex(index) == IF Truthy(index) THEN parseInt(index) ELSE Num(0)

\* getPoem with the range check shifted by one
getPoem_offByOne(index) ==
  IF index = -1 THEN Fetch("getRandomPoem", getRandomPoemUrl, <<>>, NaN, TRUE)
  ELSE IF index > 0 /\ index <= Len(SAMPLE_POEMS) THEN Return(Ok(SAMPLE_POEMS[index]))
  ELSE Return(Err(<<"invalid poem index: ">> \o NumToStr(index)))

\* getPoem without the lower bound of the range check: SAMPLE_POEMS[index] of a
\* negative index is undefined
getPoem_noLowerBound(index) ==
  IF index = -1 THEN Fetch("getRandomPoem", getRandomPoemUrl, <<>>, NaN, TRUE)
  ELSE IF index < Len(SAMPLE_POEMS)
  THEN Return(Ok(IF index >= 0 THEN SAMPLE_POEMS[index + 1] ELSE NullPoem))
  ELSE Return(Err(<<"invalid poem index: ">> \o NumToStr(index)))

\* getPoem(index)
getPoem(index) ==
  IF index = -1 THEN Fetch("getRandomPoem", getRandomPoemUrl, <<>>, NaN, TRUE)
  ELSE IF index >= 0 /\ index < Len(SAMPLE_POEMS) THEN Return(Ok(SAMPLE_POEMS[index + 1]))
  ELSE Return(Err(<<"invalid poem index: ">> \o NumToStr(index)))

\* getRandomPoemWithLanguage that does not look at the preference
getRandomPoemWithLanguage_ignorePref(languagePref) ==
  Fetch("chineseRandom", chineseRandomUrl, <<>>, NaN, FALSE)

\* getRandomPoemWithLanguage, after poemLanguageStorage.get() gave languagePref
getRandomPoemWithLanguage(languagePref) ==
  IF languagePref = "english"
  THEN Fetch("fetchEnglishPoem", fetchEnglishPoemUrl, <<>>, NaN, FALSE)
  ELSE Fetch("chineseRandom", chineseRandomUrl, <<>>, NaN, FALSE)

AuthorPrefix == <<"a", "u", "t", "h", "o", "r", "/">>

LineCountPrefix == <<"l", "i", "n", "e", "c", "o", "u", "n", "t", "/">>

\* getPoemByCategoryWithLanguage whose english branch rejects a category that is
\* neither a prefix form nor "random" nor "all"
getPoemByCategoryWithLanguage_strict(languagePref, category) ==
  IF languagePref = "english"
  THEN IF category = Undef
       THEN Return(Err(<<"Cannot read properties of undefined (reading 'startsWith')">>))
       ELSE IF startsWith(category, AuthorPrefix)
       THEN LET author == replaceFirst(category, AuthorPrefix)
            IN Fetch("fetchPoemByAuthor", fetchPoemByAuthorUrl(author), author, NaN, FALSE)
       ELSE IF startsWith(category, LineCountPrefix)
       THEN LET lineCount == parseInt(replaceFirst(category, LineCountPrefix))
            IN Fetch("fetchPoemByLineCount", fetchPoemByLineCountUrl(lineCount), <<>>,
                     lineCount, FALSE)
       ELSE IF category \in {<<"r", "a", "n", "d", "o", "m">>, <<"a", "l", "l">>}
       THEN Fetch("fetchEnglishPoem", fetchEnglishPoemUrl, <<>>, NaN, FALSE)
       ELSE Return(Err(<<"unknown category: ">> \o category))
  ELSE Fetch("chineseCategory", chineseCategoryUrl(category), category, NaN, FALSE)

\* getPoemByCategoryWithLanguage, after poemLanguageStorage.get() gave languagePref
getPoemByCategoryWithLanguage(languagePref, category) ==
  IF languagePref = "english"
  THEN IF category = Undef
       THEN Return(Err(<<"Cannot read properties of undefined (reading 'startsWith')">>))
       ELSE IF startsWith(category, AuthorPrefix)
       THEN LET author == replaceFirst(category, AuthorPrefix)
            IN Fetch("fetchPoemByAuthor", fetchPoemByAuthorUrl(author), author, NaN, FALSE)
       ELSE IF startsWith(category, LineCountPrefix)
       THEN LET lineCount == parseInt(replaceFirst(category, LineCountPrefix))
            IN Fetch("fetchPoemByLineCount", fetchPoemByLineCountUrl(lineCount), <<>>,
                     lineCount, FALSE)
       ELSE Fetch("fetchEnglishPoem", fetchEnglishPoemUrl, <<>>, NaN, FALSE)
  ELSE Fetch("chineseCategory", chineseCategoryUrl(category), category, NaN, FALSE)

\* the waiting client's continuation once fetch settles
ClientResult(client, arg, num, resp, randomIndex) ==
  CASE client = "getRandomPoem" -> getRandomPoemResult(resp)
    [] client = "fetchEnglishPoem" -> fetchEnglishPoemResult(resp)
    [] client = "fetchPoemByAuthor" -> fetchPoemByAuthorResult(arg, resp, randomIndex)
    [] client = "fetchPoemByLineCount" -> fetchPoemByLineCountResult(num, resp, randomIndex)
    [] client = "chineseRandom" -> chineseRandomResult(resp)
    [] OTHER -> chineseCategoryResult(resp)

\* ------------------------------------------------------ model inputs
\* category strings of GET_POEM_BY_CATEGORY requests
Categories ==
  { <<"a", "u", "t", "h", "o", "r", "/", "E", " ", "D">>,
    <<"a", "u", "t", "h", "o", "r", "/", "A", "/", "B">>,
    <<"a", "u", "t", "h", "o", "r", "/">>,
    <<"l", "i", "n", "e", "c", "o", "u", "n", "t", "/", "1", "4">>,
    <<"l", "i", "n", "e", "c", "o", "u", "n", "t", "/", "x">>,
    <<"r", "a", "n", "d", "o", "m">>,
    <<"a", "l", "l">>,
    <<"s", "p", "r", "i", "n", "g">>,
    <<"a", "u", "t", "h", "o", "r">>,
    <<>>,
    Undef }

Indices == (-3)..MaxIndex

Request(type, index, category) == [type |-> type, index |-> index, category |-> category]

NoRequest == Request("none", 0, Undef)

\* the requests a page can send to the background script
Requests ==
  {Request("GET_RANDOM_POEM", 0, Undef), Request("GET_CURRENT_INDEX", 0, Undef),
   Request("PING", 0, Undef)}
  \cup {Request("GET_POEM_BY_CATEGORY", 0, cat) : cat \in Categories}
  \cup {Request("GET_POEM", i, Undef) : i \in Indices}
  \cup {Request("SET_CURRENT_INDEX", i, Undef) : i \in 0..MaxIndex}

PoemA == EnObj(<<"Hope">>, <<"E D">>, Lines(<< <<"l1">>, <<"l2">> >>))

PoemB == EnObj(<<"Fire and Ice">>, <<"R F">>, RawLines(<<"raw">>))

PoemNoTitle == EnObj(Undef, <<"E D">>, Lines(<<>>))

NoObj == CnObj(Undef, Undef, Undef, Undef)

\* what the network and the upstream services may answer to a fetch
Responses ==
  { Rejected(<<"Failed to fetch">>),
    Http(404, "object", NoObj, <<>>),
    Http(503, "invalid", NoObj, <<>>),
    Http(200, "invalid", NoObj, <<>>),
    Http(200, "null", NoObj, <<>>),
    Http(200, "object", CnObj(<<"Chun Wang">>, <<"guo po shan he zai">>, <<"Du Fu">>, <<"Tang">>), <<>>),
    Http(200, "object", CnObj(<<>>, <<"guo po shan he zai">>, Undef, Undef), <<>>),
    Http(200, "object", CnObj(<<"Chun Wang">>, Undef, <<"Du Fu">>, Undef), <<>>),
    Http(200, "array", NoObj, <<>>),
    Http(200, "array", NoObj, <<PoemA>>),
    Http(200, "array", NoObj, <<PoemB, PoemA>>),
    Http(200, "array", NoObj, <<PoemNoTitle>>) }

RandomIndices(resp) == IF Len(resp.arr) = 0 THEN {0} ELSE 0..(Len(resp.arr) - 1)

\* ---------------------------------------------------------------- state
\* the invocations of NewTab.handleNext that may be in progress at once
NextHandlers == {"next1", "next2"}

\* the senders of requests: an arbitrary page ("ext"), and in the new tab
\* loadRandomPoem ("load"), getCurrentIndex ("idx") and the handleNext invocations
Clients == {"ext", "load", "idx"} \cup NextHandlers


VARIABLES
  poemLanguage,   \* poemLanguageStorage: the persisted language preference
  dbIndex,        \* metadata store, key current_image_index: Undef or a string
  relay,          \* per client: the request the background script is handling
  lastSet,        \* history: the index of the latest SET_CURRENT_INDEX received
  tab,            \* NewTab: its React state and the keydown listener's closure
  inv             \* per handleNext invocation: where it waits, and its nextIndex

vars == <<poemLanguage, dbIndex, relay, lastSet, tab, inv>>

NoResponse == [success |-> FALSE, data |-> Undef, error |-> Undef]

NoSet == [seen |-> FALSE, index |-> 0]

\* a slot of the relay: pc is "idle", "pref" (awaiting poemLanguageStorage.get()),
\* "db" (awaiting dbRead), "fetch" (awaiting fetch) or "done" (sendResponse called).
\* fetches: the URLs requested for this request; prefReads: the preference reads;
\* settled: what the request's fetch settled with.
\* History, kept for the requests of the arbitrary page: prefAtStart, seenSet and
\* seenAdvance (the preference, lastSet and tab.lastAdvanced when the request
\* arrived) and prefWritten (the preference was written while the request
\* awaited its read).
Idle ==
  [pc |-> "idle", request |-> NoRequest, client |-> "none", arg |-> <<>>, num |-> NaN,
   timer |-> FALSE, fetches |-> <<>>, prefReads |-> 0, response |-> NoResponse,
   settled |-> Rejected(<<>>),
   prefAtStart |-> "chinese", prefWritten |-> FALSE, seenSet |-> NoSet,
   seenAdvance |-> Null]

\* NewTab before it is mounted.  keyIndex: currentIndex as the handleNext closure
\* of the registered keydown listener sees it.  lastAdvanced (history): the
\* nextIndex of the latest handleNext that ran to its end without an error.
\* advances (history): the number, modulo meta.length, of handleNext invocations
\* that completed after a successful poem response.
TabClosed ==
  [open |-> FALSE, poem |-> NullPoem, currentIndex |-> Null, loading |-> TRUE,
   error |-> Undef, keyIndex |-> Null, lastAdvanced |-> Null, advances |-> 0]

NoInvocation == [pc |-> "idle", nextIndex |-> Null]

Init ==
  /\ poemLanguage = "chinese"
  /\ dbIndex = Undef
  /\ relay = [c \in Clients |-> Idle]
  /\ lastSet = NoSet
  /\ tab = TabClosed
  /\ inv = [h \in NextHandlers |-> NoInvocation]

\* ------------------------------------------------------ background script
\* .then(response => sendResponse({success: true, data: response}))
\* .catch(error => sendResponse({success: false, error: error.message}))
sendResponse(slot, res) ==
  [slot EXCEPT !.pc = "done",
               !.response = IF res.ok
                            THEN [success |-> TRUE, data |-> res.value, error |-> Undef]
                            ELSE [success |-> FALSE, data |-> Undef, error |-> res.error]]

\* run a facade operation up to its first wait
Proceed(slot, plan) ==
  IF plan.kind = "return" THEN sendResponse(slot, plan.res)
  ELSE [slot EXCEPT !.pc = "fetch", !.client = plan.client, !.arg = plan.arg,
                    !.num = plan.num, !.timer = plan.timer,
                    !.fetches = Append(@, plan.url)]

\* handleRequest up to its first wait: the switch on request.type
handleRequest(slot, request) ==
  CASE request.type \in {"GET_RANDOM_POEM", "GET_POEM_BY_CATEGORY"} ->
         [slot EXCEPT !.pc = "pref"]
    [] request.type = "GET_POEM" -> Proceed(slot, getPoem(request.index))
    [] request.type = "GET_CURRENT_INDEX" -> [slot EXCEPT !.pc = "db"]
    [] OTHER -> sendResponse(slot, Err(<<"unknown request type: ", request.type>>))

\* lastSet once request has arrived
NoteSet(request) ==
  IF request.type = "SET_CURRENT_INDEX" THEN [seen |-> TRUE, index |-> request.index]
  ELSE lastSet

\* chrome.runtime.onMessage listener: the slot of a request that has just arrived
Arrive(request) == handleRequest([Idle EXCEPT !.request = request], request)

\* chrome.runtime.sendMessage(request) by the arbitrary page
onMessage(c, request) ==
  /\ relay[c].pc = "idle"
  /\ lastSet' = NoteSet(request)
  /\ relay' = [relay EXCEPT ![c] =
                 handleRequest([Idle EXCEPT !.request = request,
                                            !.prefAtStart = poemLanguage,
                                            !.seenSet = lastSet',
                                            !.seenAdvance = tab.lastAdvanced],
                               request)]

\* poemLanguageStorage.get() resolves and the operation routes on its value
StorageGet(c) ==
  /\ relay[c].pc = "pref"
  /\ LET slot == [relay[c] EXCEPT !.prefReads = @ + 1]
         request == relay[c].request
     IN relay' = [relay EXCEPT ![c] =
                    IF request.type = "GET_RANDOM_POEM"
                    THEN Proceed(slot, getRandomPoemWithLanguage(poemLanguage))
                    ELSE Proceed(slot, getPoemByCategoryWithLanguage(poemLanguage,
                                                                     request.category))]
  /\ UNCHANGED <<poemLanguage, dbIndex, lastSet, tab, inv>>

\* dbRead(metadata, current_image_index) resolves
DbRead(c) ==
  /\ relay[c].pc = "db"
  /\ relay' = [relay EXCEPT ![c] = sendResponse(@, Ok(getCurrentIndex(dbIndex)))]
  /\ UNCHANGED <<poemLanguage, dbIndex, lastSet, tab, inv>>

\* the pending fetch settles with a response of set R and the client runs to its end
FetchSettleFrom(c, R) ==
  /\ relay[c].pc = "fetch"
  /\ \E resp \in R : \E randomIndex \in RandomIndices(resp) :
       relay' = [relay EXCEPT ![c] =
                   sendResponse([relay[c] EXCEPT !.settled = resp],
                                ClientResult(@.client, @.arg, @.num, resp, randomIndex))]
  /\ UNCHANGED <<poemLanguage, dbIndex, lastSet, tab, inv>>

FetchSettle(c) == FetchSettleFrom(c, Responses)

\* getRandomPoem's timer fires first: controller.abort() rejects the fetch
Abort(c) ==
  /\ relay[c].pc = "fetch"
  /\ relay[c].timer
  /\ LET resp == Rejected(<<"The user aborted a request.">>)
     IN relay' = [relay EXCEPT ![c] =
                    sendResponse([relay[c] EXCEPT !.settled = resp],
                                 ClientResult(@.client, @.arg, @.num, resp, 0))]
  /\ UNCHANGED <<poemLanguage, dbIndex, lastSet, tab, inv>>

\* the options page writes the preference
SetLanguage ==
  /\ \E l \in {"chinese", "english"} : poemLanguage' = l
  /\ relay' = [relay EXCEPT !["ext"] =
                 IF @.pc = "pref" THEN [@ EXCEPT !.prefWritten = TRUE] ELSE @]
  /\ UNCHANGED <<dbIndex, lastSet, tab, inv>>

\* ------------------------------------------------------------ the pages
\* an arbitrary page sends a request
ExtSend ==
  /\ \E request \in Requests : onMessage("ext", request)
  /\ UNCHANGED <<poemLanguage, dbIndex, tab, inv>>

\* and takes the response
ExtReceive ==
  /\ relay["ext"].pc = "done"
  /\ relay' = [relay EXCEPT !["ext"] = Idle]
  /\ UNCHANGED <<poemLanguage, dbIndex, lastSet, tab, inv>>

\* ------------------------------------------------------------- NewTab
\* (currentIndex + 1) % meta.length
NextIndexOf(currentIndex) ==
  IF currentIndex.nan THEN NaN ELSE Num((currentIndex.n + 1) % MetaLength)

\* the keydown effect depends on [loading]: when a render changes loading, the
\* listener is registered anew and closes over that render's handleNext
Rendered(old, new) ==
  IF new.loading # old.loading THEN [new EXCEPT !.keyIndex = new.currentIndex] ELSE new

\* response.error || fallback
ErrorOf(response, fallback) == OrElse(response.error, fallback)

\* the page is opened: the first render, then the effects in order:
\* loadRandomPoem() up to its sendMessage, the keydown listener, and
\* getCurrentIndex() up to its sendMessage
Mount ==
  /\ ~tab.open
  /\ relay["load"].pc = "idle" /\ relay["idx"].pc = "idle"
  /\ tab' = [TabClosed EXCEPT !.open = TRUE, !.loading = TRUE, !.error = Undef]
  /\ relay' = [relay EXCEPT !["load"] = Arrive(Request("GET_RANDOM_POEM", 0, Undef)),
                            !["idx"] = Arrive(Request("GET_CURRENT_INDEX", 0, Undef))]
  /\ UNCHANGED <<poemLanguage, dbIndex, lastSet, inv>>

\* loadRandomPoem after its await
loadRandomPoem ==
  /\ tab.open
  /\ relay["load"].pc = "done"
  /\ LET response == relay["load"].response
         new == IF ~response.success
                THEN [tab EXCEPT !.error = ErrorOf(response, <<"failed to get the poem">>),
                                 !.loading = FALSE]
                ELSE [tab EXCEPT !.poem = response.data, !.loading = FALSE]
     IN tab' = Rendered(tab, new)
  /\ relay' = [relay EXCEPT !["load"] = Idle]
  /\ UNCHANGED <<poemLanguage, dbIndex, lastSet, inv>>

\* NewTab.getCurrentIndex after its await
tabGetCurrentIndex ==
  /\ tab.open
  /\ relay["idx"].pc = "done"
  /\ LET response == relay["idx"].response
     IN tab' = IF response.success THEN [tab EXCEPT !.currentIndex = response.data] ELSE tab
  /\ relay' = [relay EXCEPT !["idx"] = Idle]
  /\ UNCHANGED <<poemLanguage, dbIndex, lastSet, inv>>

\* handleNext without its first line (if (currentIndex === null) return): null + 1
\* is 1
handleNext_noNullCheck(h, currentIndex) ==
  /\ inv[h].pc = "idle"
  /\ relay[h].pc = "idle"
  /\ tab' = Rendered(tab, [tab EXCEPT !.loading = TRUE, !.error = Undef])
  /\ inv' = [inv EXCEPT ![h] = [pc |-> "awaitPoem",
                                nextIndex |-> NextIndexOf(currentIndex)]]
  /\ relay' = [relay EXCEPT ![h] = Arrive(Request("GET_RANDOM_POEM", 0, Undef))]
  /\ UNCHANGED <<poemLanguage, dbIndex, lastSet>>

\* handleNext, invocation h, with currentIndex as its closure sees it, up to
\* its first sendMessage
handleNext(h, currentIndex) ==
  /\ inv[h].pc = "idle"
  /\ relay[h].pc = "idle"
  /\ IF currentIndex.null
     THEN UNCHANGED <<tab, inv, relay>>
     ELSE /\ tab' = Rendered(tab, [tab EXCEPT !.loading = TRUE, !.error = Undef])
          /\ inv' = [inv EXCEPT ![h] = [pc |-> "awaitPoem",
                                        nextIndex |-> NextIndexOf(currentIndex)]]
          /\ relay' = [relay EXCEPT ![h] = Arrive(Request("GET_RANDOM_POEM", 0, Undef))]
  /\ UNCHANGED <<poemLanguage, dbIndex, lastSet>>

\* <Navigation direction="right" onClick={handleNext} />: the handleNext of
\* the latest render
Click ==
  /\ tab.open
  /\ \E h \in NextHandlers : handleNext(h, tab.currentIndex)

\* handleKeyDown, ArrowRight: the listener registered when loading last changed
handleKeyDown ==
  /\ tab.open
  /\ ~tab.loading
  /\ \E h \in NextHandlers : handleNext(h, tab.keyIndex)

\* handleNext after the await of the poem
handleNextPoem(h) ==
  /\ inv[h].pc = "awaitPoem"
  /\ relay[h].pc = "done"
  /\ LET response == relay[h].response
         nextIndex == inv[h].nextIndex
         request == Request("SET_CURRENT_INDEX", nextIndex.n, Undef)
     IN IF ~response.success
        THEN /\ tab' = Rendered(tab,
                         [tab EXCEPT !.error = ErrorOf(response, <<"failed to get the next poem">>),
                                     !.loading = FALSE])
             /\ inv' = [inv EXCEPT ![h] = NoInvocation]
             /\ relay' = [relay EXCEPT ![h] = Idle]
             /\ UNCHANGED lastSet
        ELSE /\ tab' = [tab EXCEPT !.poem = response.data, !.currentIndex = nextIndex]
             /\ inv' = [inv EXCEPT ![h].pc = "awaitSet"]
             /\ lastSet' = NoteSet(request)
             /\ relay' = [relay EXCEPT ![h] = Arrive(request)]
  /\ UNCHANGED <<poemLanguage, dbIndex>>

\* handleNext after the await of SET_CURRENT_INDEX, whose response it does not read
handleNextSet(h) ==
  /\ inv[h].pc = "awaitSet"
  /\ relay[h].pc = "done"
  /\ tab' = Rendered(tab, [tab EXCEPT !.loading = FALSE,
                                      !.lastAdvanced = inv[h].nextIndex,
                                      !.advances = (@ + 1) % MetaLength])
  /\ inv' = [inv EXCEPT ![h] = NoInvocation]
  /\ relay' = [relay EXCEPT ![h] = Idle]
  /\ UNCHANGED <<poemLanguage, dbIndex, lastSet>>

\* the message of the rejection when the background script cannot be reached
NoReceiver == <<"Could not establish connection. Receiving end does not exist.">>

\* handleNext when chrome.runtime.sendMessage of the poem request rejects: the
\* catch block, then finally
handleNextReject(h) ==
  /\ inv[h].pc = "awaitPoem"
  /\ tab' = Rendered(tab, [tab EXCEPT !.error = NoReceiver, !.loading = FALSE])
  /\ inv' = [inv EXCEPT ![h] = NoInvocation]
  /\ relay' = [relay EXCEPT ![h] = Idle]
  /\ UNCHANGED <<poemLanguage, dbIndex, lastSet>>

\* another page (a tab opened later) asks for the persisted index
ProbeSend ==
  /\ onMessage("ext", Request("GET_CURRENT_INDEX", 0, Undef))
  /\ UNCHANGED <<poemLanguage, dbIndex, tab, inv>>

\* what the upstream services answer while the tab is modelled
TabResponses ==
  { Rejected(<<"Failed to fetch">>),
    Http(200, "object", CnObj(<<"Chun Wang">>, <<"guo po shan he zai">>, <<"Du Fu">>, <<"Tang">>), <<>>) }

FetchSettleTab(c) == FetchSettleFrom(c, TabResponses)

Next ==
  \/ ExtSend
  \/ ExtReceive
  \/ SetLanguage
  \/ \E c \in Clients : StorageGet(c)
  \/ \E c \in Clients : DbRead(c)
  \/ \E c \in Clients : FetchSettle(c)
  \/ \E c \in Clients : Abort(c)

Spec == Init /\ [][Next]_vars

\* the new tab and the background script
NextTab ==
  \/ Mount
  \/ loadRandomPoem
  \/ tabGetCurrentIndex
  \/ Click
  \/ handleKeyDown
  \/ \E h \in NextHandlers : handleNextPoem(h)
  \/ \E h \in NextHandlers : handleNextSet(h)
  \/ ProbeSend
  \/ ExtReceive
  \/ \E c \in Clients : StorageGet(c)
  \/ \E c \in Clients : DbRead(c)
  \/ \E c \in Clients : FetchSettleTab(c)

SpecTab == Init /\ [][NextTab]_vars

\* the new tab by itself: its handlers, the background script serving them, and
\* a background script that cannot be reached
NextNav ==
  \/ Mount
  \/ loadRandomPoem
  \/ tabGetCurrentIndex
  \/ Click
  \/ handleKeyDown
  \/ \E h \in NextHandlers : handleNextPoem(h)
  \/ \E h \in NextHandlers : handleNextSet(h)
  \/ \E h \in NextHandlers : handleNextReject(h)
  \/ \E c \in Clients : StorageGet(c)
  \/ \E c \in Clients : DbRead(c)
  \/ \E c \in Clients : FetchSettleTab(c)

SpecNav == Init /\ [][NextNav]_vars

\* the background script while the upstream never answers: no fetch settles by
\* itself.  What the runtime guarantees: a storage or database read resolves,
\* and an armed timer fires.
NextSilent ==
  \/ ExtSend
  \/ ExtReceive
  \/ SetLanguage
  \/ \E c \in Clients : StorageGet(c)
  \/ \E c \in Clients : DbRead(c)
  \/ \E c \in Clients : Abort(c)

SpecSilent ==
  /\ Init
  /\ [][NextSilent]_vars
  /\ WF_vars(\E c \in Clients : StorageGet(c))
  /\ WF_vars(\E c \in Clients : DbRead(c))
  /\ WF_vars(\E c \in Clients : Abort(c))

\* ================================================================ claims
\* the slot of the arbitrary page, on which the claims observe the relay
E == relay["ext"]

Started == E.pc \in {"pref", "db", "fetch", "done"}

Issued == E.pc \in {"fetch", "done"}

PoemTypes == {"GET_RANDOM_POEM", "GET_POEM_BY_CATEGORY", "GET_POEM"}

ValidIndex(index) == index >= 0 /\ index < Len(SAMPLE_POEMS)

IsChineseEndpoint(url) == Head(url) = "https://v1.jinrishici.com"

IsEnglishEndpoint(url) == Head(url) = "https://poetrydb.org"

WellFormed(poem) ==
  /\ Truthy(poem.title)
  /\ Truthy(poem.content)
  /\ Truthy(poem.author)
  /\ poem.language \in {<<"chinese">>, <<"english">>}

\* C1: every poem record returned as success data of a poem operation has a
\* non-empty title, content and author and a language tag in {chinese, english}.
C1_ReturnedPoemWellFormed ==
  (E.pc = "done" /\ E.request.type \in PoemTypes /\ E.response.success)
    => WellFormed(E.response.data)

\* C2: getPoem(-1) routes on the persisted preference: its only request goes to
\* the English random endpoint under english, to the Chinese endpoint under chinese.
C2_GetPoemMinusOneFollowsPreference ==
  (Issued /\ E.request.type = "GET_POEM" /\ E.request.index = -1)
    => E.fetches = << IF E.prefAtStart = "english" THEN fetchEnglishPoemUrl
                      ELSE chineseRandomUrl >>

\* C3: SET_CURRENT_INDEX is acknowledged with success, and GET_CURRENT_INDEX
\* returns 0 when nothing was persisted and else the index of the latest
\* SET_CURRENT_INDEX.
C3_CurrentIndexRoundTrip ==
  E.pc = "done" =>
    /\ E.request.type = "SET_CURRENT_INDEX" => E.response.success
    /\ E.request.type = "GET_CURRENT_INDEX" =>
         /\ E.response.success
         /\ E.response.data = IF E.seenSet.seen THEN Num(E.seenSet.index) ELSE Num(0)

\* C4: once a 'next' action of the tab has completed successfully (and no other
\* advance was sent since), a GET_CURRENT_INDEX issued afterwards returns the
\* advanced index (old index + 1) mod length.
C4_NextAdvancePersisted ==
  (/\ E.pc = "done"
   /\ E.request.type = "GET_CURRENT_INDEX"
   /\ ~E.seenAdvance.null
   /\ E.seenSet = [seen |-> TRUE, index |-> E.seenAdvance.n])
    => E.response.success /\ E.response.data = E.seenAdvance

ContractTypes ==
  {"GET_RANDOM_POEM", "GET_POEM_BY_CATEGORY", "GET_POEM", "GET_CURRENT_INDEX",
   "SET_CURRENT_INDEX"}

UnknownTypeError(type) == <<"unknown request type: ", type>>

\* C5: every answered request has one envelope, success with data or failure
\* with an error message; a request of an unknown type is answered with a failure
\* naming the type, and none of the five contract types is treated as unknown.
C5_RelayEnvelope ==
  E.pc = "done" =>
    /\ E.response.success => E.response.error = Undef
    /\ ~E.response.success => E.response.error # Undef /\ E.response.data = Undef
    /\ E.request.type \notin ContractTypes =>
         ~E.response.success /\ E.response.error = UnknownTypeError(E.request.type)
    /\ E.request.type \in ContractTypes =>
         (E.response.success \/ E.response.error # UnknownTypeError(E.request.type))

\* C6: a random-poem request that arrived while the preference was english (no
\* write before its read) issues no request to the Chinese endpoint, and one that
\* arrived while it was chinese none to the English endpoint; the one request it
\* issues is the random request of the preferred language.
C6_RandomRoutingFollowsPreference ==
  (Issued /\ E.request.type = "GET_RANDOM_POEM" /\ ~E.prefWritten) =>
    /\ E.prefAtStart = "english" =>
         \A i \in DOMAIN E.fetches : ~IsChineseEndpoint(E.fetches[i])
    /\ E.prefAtStart = "chinese" =>
         \A i \in DOMAIN E.fetches : ~IsEnglishEndpoint(E.fetches[i])
    /\ Len(E.fetches) = 1
    /\ IsEnglishEndpoint(E.fetches[1]) \/ IsChineseEndpoint(E.fetches[1])

C6_Witness ==
  /\ E.pc = "done"
  /\ E.request.type = "GET_RANDOM_POEM"
  /\ E.prefAtStart = "english"
  /\ ~E.prefWritten
  /\ E.response.success

\* C7: getPoem(i) with 0 <= i < sampleSetLength returns exactly the i-th sample
\* entry, in every state it is called in, without a network request or a read of
\* the preference.
C7_GetPoemValidIndex ==
  (Started /\ E.request.type = "GET_POEM" /\ ValidIndex(E.request.index)) =>
    /\ E.pc = "done"
    /\ E.response.success
    /\ E.response.data = SAMPLE_POEMS[E.request.index + 1]
    /\ E.fetches = <<>>
    /\ E.prefReads = 0

C7_Witness ==
  /\ E.pc = "done"
  /\ E.request.type = "GET_POEM"
  /\ E.request.index = Len(SAMPLE_POEMS) - 1
  /\ poemLanguage = "english"
  /\ E.response.data.title = <<"Wang Lushan Pubu">>

\* C8: getPoem(index) with index neither -1 nor in 0..sampleSetLength-1 fails
\* with the invalid-index error carrying the index, issues no network request,
\* and the relay answers success=false without data.
C8_InvalidIndexFails ==
  (/\ Started
   /\ E.request.type = "GET_POEM"
   /\ E.request.index # -1
   /\ ~ValidIndex(E.request.index)) =>
    /\ E.pc = "done"
    /\ ~E.response.success
    /\ E.response.data = Undef
    /\ Head(E.response.error) = "invalid poem index: "
    /\ Tail(E.response.error) = NumToStr(E.request.index)
    /\ E.fetches = <<>>

C8_Witness ==
  /\ E.pc = "done"
  /\ E.request.type = "GET_POEM"
  /\ E.request.index = Len(SAMPLE_POEMS)
  /\ ~E.response.success

\* decodeURIComponent: %XX back to the character
RECURSIVE decodeURIComponent(_)
decodeURIComponent(s) ==
  IF s = <<>> THEN <<>>
  ELSE IF Head(s) = "%" /\ Len(s) >= 3
  THEN LET hex == <<s[2], s[3]>>
           c == CASE hex = <<"2", "0">> -> " "
                  [] hex = <<"2", "F">> -> "/"
                  [] hex = <<"2", "C">> -> ","
                  [] hex = <<"3", "F">> -> "?"
                  [] hex = <<"2", "5">> -> "%"
                  [] OTHER -> "\n"
       IN <<c>> \o decodeURIComponent(SubSeq(s, 4, Len(s)))
  ELSE <<Head(s)>> \o decodeURIComponent(Tail(s))

\* path segment of an author URL: between "/author/" and "/title,author,lines"
AuthorSegment(url) == SubSeq(url, 4, Len(url) - 1)

IsAuthorUrl(url, name) ==
  /\ Len(url) >= 4
  /\ SubSeq(url, 1, 3) = <<"https://poetrydb.org", "/author", "/">>
  /\ url[Len(url)] = "/title,author,lines"
  /\ \A i \in DOMAIN AuthorSegment(url) : AuthorSegment(url)[i] \notin {" ", "/", "?"}
  /\ decodeURIComponent(AuthorSegment(url)) = name

AuthorName(category) == SubSeq(category, Len(AuthorPrefix) + 1, Len(category))

IsAuthorRequest ==
  /\ E.request.type = "GET_POEM_BY_CATEGORY"
  /\ E.request.category # Undef
  /\ startsWith(E.request.category, AuthorPrefix)
  /\ E.prefAtStart = "english"
  /\ ~E.prefWritten

MappedFrom(poem, entry) ==
  /\ poem.title = entry.title
  /\ poem.author = entry.author
  /\ poem.content = (IF entry.lines.isArray THEN join(entry.lines.items) ELSE entry.lines.raw)
  /\ poem.language = <<"english">>

\* C9: under english, a category "author/<name>" issues exactly one request, to
\* the author endpoint with the name URL-escaped; an empty result array fails
\* with a not-found error naming the author, a non-empty one returns one of its
\* elements.
C9_AuthorCategory ==
  (Issued /\ IsAuthorRequest) =>
    LET name == AuthorName(E.request.category)
        got == E.settled
    IN /\ Len(E.fetches) = 1
       /\ IsAuthorUrl(E.fetches[1], name)
       /\ (E.pc = "done" /\ got.kind = "http" /\ ResponseOk(got) /\ got.shape = "array") =>
            IF Len(got.arr) = 0
            THEN /\ ~E.response.success
                 /\ E.response.error =
                      <<"cannot fetch poem data of ">> \o name \o <<": ">>
                        \o <<"no poem found of ">> \o name
            ELSE /\ E.response.success
                 /\ \E i \in DOMAIN got.arr : MappedFrom(E.response.data, got.arr[i])

C9_Witness ==
  /\ E.pc = "done"
  /\ IsAuthorRequest
  /\ AuthorName(E.request.category) = <<"E", " ", "D">>
  /\ E.settled.kind = "http" /\ ResponseOk(E.settled)
  /\ E.settled.shape = "array" /\ Len(E.settled.arr) = 0
  /\ ~E.response.success

IsChineseCategoryRequest ==
  /\ E.request.type = "GET_POEM_BY_CATEGORY"
  /\ E.request.category # Undef
  /\ E.prefAtStart = "chinese"
  /\ ~E.prefWritten

\* the last n tokens of s
Suffix(s, n) == SubSeq(s, Len(s) - n + 1, Len(s))

\* C10: under chinese, getPoemByCategory(category) issues exactly one GET to
\* {base}/{category}.json, the category verbatim; on a non-2xx status it fails
\* with an error carrying the status, without another request and without a poem.
C10_ChineseCategory ==
  (Issued /\ IsChineseCategoryRequest) =>
    /\ E.fetches = << <<"https://v1.jinrishici.com", "/">> \o E.request.category
                        \o <<".", "json">> >>
    /\ (E.pc = "done" /\ E.settled.kind = "http" /\ ~ResponseOk(E.settled)) =>
         /\ ~E.response.success
         /\ E.response.data = Undef
         /\ Suffix(E.response.error, Len(NumToStr(E.settled.status)))
              = NumToStr(E.settled.status)

C10_Witness ==
  /\ E.pc = "done"
  /\ IsChineseCategoryRequest
  /\ E.request.category = <<"s", "p", "r", "i", "n", "g">>
  /\ E.settled.kind = "http" /\ E.settled.status = 404
  /\ ~E.response.success

\* the random-poem request of the page waits for the Chinese endpoint
ChineseRandomPending ==
  /\ E.pc = "fetch"
  /\ E.request.type = "GET_RANDOM_POEM"
  /\ IsChineseEndpoint(E.fetches[1])

\* C11: the Chinese random fetch is bounded by a timeout: when the upstream never
\* answers, a GET_RANDOM_POEM request waiting for the Chinese endpoint is
\* cancelled and the requester eventually receives a failure response.
C11_ChineseRandomTimesOut ==
  ChineseRandomPending ~> (E.pc = "done" /\ ~E.response.success)

\* a category request of the page that arrived, and was read, under english
IsEnglishCategoryRequest ==
  /\ E.request.type = "GET_POEM_BY_CATEGORY"
  /\ E.request.category # Undef
  /\ E.prefAtStart = "english"
  /\ ~E.prefWritten

\* the client the claim assigns to a category string
ClientOfCategory(category) ==
  IF Len(category) >= 7 /\ SubSeq(category, 1, 7) = <<"a", "u", "t", "h", "o", "r", "/">>
  THEN "fetchPoemByAuthor"
  ELSE IF Len(category) >= 10
          /\ SubSeq(category, 1, 10) = <<"l", "i", "n", "e", "c", "o", "u", "n", "t", "/">>
  THEN "fetchPoemByLineCount"
  ELSE "fetchEnglishPoem"

\* the endpoint a client requests, by the second token of its URL
EndpointOfClient(client) ==
  CASE client = "fetchPoemByAuthor" -> "/author"
    [] client = "fetchPoemByLineCount" -> "/linecount"
    [] OTHER -> "/random/1"

\* the upstream answered 200 with a non-empty array
AnsweredWithPoems(resp) ==
  resp.kind = "http" /\ ResponseOk(resp) /\ resp.shape = "array" /\ Len(resp.arr) > 0

\* C12: under english, getPoemByCategory routes every category string to exactly
\* one client: "author/..." to the by-author client, "linecount/..." to the
\* by-line-count client, every other string (also the empty and the unrecognized
\* one) to the English random client; the category alone never causes an error
\* (the request is issued, and succeeds when the upstream answers with poems)
\* and no request reaches the Chinese endpoint.
C12_EnglishCategoryRouting ==
  (IsEnglishCategoryRequest /\ E.pc \in {"fetch", "done"}) =>
    /\ E.client = ClientOfCategory(E.request.category)
    /\ Len(E.fetches) = 1
    /\ IsEnglishEndpoint(E.fetches[1])
    /\ ~IsChineseEndpoint(E.fetches[1])
    /\ E.fetches[1][2] = EndpointOfClient(E.client)
    /\ (E.pc = "done" /\ AnsweredWithPoems(E.settled)) => E.response.success

C12_Witness ==
  /\ E.pc = "done"
  /\ IsEnglishCategoryRequest
  /\ E.request.category = <<"s", "p", "r", "i", "n", "g">>
  /\ E.client = "fetchEnglishPoem"
  /\ AnsweredWithPoems(E.settled)
  /\ E.response.success

\* a poem request started by the tab still awaits its response
PoemRequestInFlight ==
  \/ tab.open /\ relay["load"].pc # "idle"
  \/ \E h \in NextHandlers : inv[h].pc = "awaitPoem"

\* C13: the loading flag of the new tab is true in every state in which a poem
\* request started by the tab (the initial load or a 'next' action) still awaits
\* its response.
C13_LoadingWhileInFlight == PoemRequestInFlight => tab.loading

\* no 'next' action of the tab is in progress
NoNextInProgress == \A h \in NextHandlers : inv[h].pc = "idle"

\* C14: once the 'next' actions that got a successful poem response have all
\* completed, k of them, currentIndex is (initial index + k) mod meta.length,
\* the initial index being what GET_CURRENT_INDEX returned.
C14_NoAdvanceLost ==
  (tab.open /\ ~tab.currentIndex.null /\ NoNextInProgress) =>
    tab.currentIndex = Num((getCurrentIndex(dbIndex).n + tab.advances) % MetaLength)

\* the step in which invocation h of handleNext ends on a failed poem request
NextFails(h) == inv[h].pc = "awaitPoem" /\ inv'[h].pc = "idle"

\* the step in which invocation h of handleNext sends its first request
NextStarts(h) == inv[h].pc = "idle" /\ inv'[h].pc # "idle"

\* C15: a 'next' action whose poem request fails (success=false, or the message
\* rejected) leaves the poem and currentIndex as they are, sends no
\* SET_CURRENT_INDEX, sets the error message and ends with loading=false; while
\* currentIndex is null no 'next' action sends a request.
C15_FailedNextFrame ==
  [][\A h \in NextHandlers :
       /\ NextFails(h) =>
            /\ tab'.poem = tab.poem
            /\ tab'.currentIndex = tab.currentIndex
            /\ lastSet' = lastSet
            /\ relay'[h].pc = "idle"
            /\ Truthy(tab'.error)
            /\ ~tab'.loading
       /\ NextStarts(h) => ~tab.currentIndex.null
       /\ tab.currentIndex.null => (inv' = inv /\ relay'[h] = relay[h])]_vars

C15_Witness ==
  /\ tab.error = NoReceiver
  /\ ~tab.loading
  /\ tab.poem # NullPoem
  /\ tab.currentIndex = Num(1)
  /\ lastSet = [seen |-> TRUE, index |-> 1]
  /\ NoNextInProgress

====
